---- MODULE Spec2Model ----
(***************************************************************************)
(* Transaction handlers of the calculator, patient and smartmed families.  *)
(* One behaviour follows one transaction processor: the validator hands it *)
(* transactions one at a time (apply runs to completion), and the handler  *)
(* reads and writes the ledger through the context it is given.            *)
(*                                                                         *)
(* Text (payloads, state records) is modelled as TLA+ strings, character   *)
(* by character; a Python exception leaving apply is the value of result.  *)
(***************************************************************************)
EXTENDS Integers, Sequences, FiniteSets, TLC

VARIABLES
    handler,    \* the family of the transaction processor under observation
    store,      \* ledger state: function from present addresses to bytes
    pre,        \* ledger state when the last apply call started
    txn,        \* the last transaction handed to apply
    result,     \* how the last apply call ended: "OK" or the exception raised
    calls,      \* context operations the last apply call issued, in order
    events,     \* events the last apply call added, in order
    clock,      \* the clock readings the last apply call took
    dslist,     \* lines of ./pyprocessor/dslist.txt, the static participant list
    colorFile,  \* contents of ./pyprocessor/ds-color.txt
    log,        \* history of apply calls (recorded by SpecTrace only)
    race        \* two calls in progress side by side (SpecRace), else <<>>

vars == <<handler, store, pre, txn, result, calls, events, clock, dslist,
          colorFile, log, race>>

----------------------------------------------------------------------------
(* Bounds of the model *)

\* calculator values are kept within -MaxAbs .. MaxAbs
MaxAbs == 7
\* longest state record (in characters) the model lets a handler store
MaxDataLen == 100
\* number of apply calls SpecTrace records
MaxCalls == 3
MaxFaultAt == 3

----------------------------------------------------------------------------
(* Python text primitives *)

Ch(s, i) == SubSeq(s, i, i)

Digits == "0123456789"

\* positions of character c in s
Positions(s, c) == {i \in 1..Len(s) : Ch(s, i) = c}

Contains(s, c) == Positions(s, c) # {}

\* the least member of a non-empty set of positions
First(hits) == CHOOSE i \in hits : \A k \in hits : i <= k

\* s.index(c), 0-based, for a character that occurs in s
IndexIn(s, c) == First(Positions(s, c)) - 1

IsDigit(c) == Contains(Digits, c)

\* the fields of s between the delimiter positions hits, in order
Cuts(s, hits) ==
    LET n     == Cardinality(hits)
        at(k) == IF k = 0 THEN 0
                 ELSE IF k = n + 1 THEN Len(s) + 1
                 ELSE CHOOSE i \in hits : Cardinality({j \in hits : j < i}) = k - 1
    IN  [k \in 1..(n + 1) |-> SubSeq(s, at(k - 1) + 1, at(k) - 1)]

\* s.split(d) for a one-character delimiter: one more field than s has delimiters
Split(s, d) == Cuts(s, Positions(s, d))

RECURSIVE Strip(_)
\* str.strip() over the blank characters of the model's alphabet
Strip(s) ==
    IF Len(s) = 0 THEN s
    ELSE IF Ch(s, 1) = " " THEN Strip(Tail(s))
    ELSE IF Ch(s, Len(s)) = " " THEN Strip(SubSeq(s, 1, Len(s) - 1))
    ELSE s

RECURSIVE DigitsOk(_, _)
\* the digit part of an integer literal: digits, single underscores between digits
DigitsOk(s, i) ==
    IF i > Len(s) THEN TRUE
    ELSE IF IsDigit(Ch(s, i)) THEN DigitsOk(s, i + 1)
    ELSE IF Ch(s, i) = "_"
         THEN /\ i > 1 /\ i < Len(s)
              /\ IsDigit(Ch(s, i - 1)) /\ IsDigit(Ch(s, i + 1))
              /\ DigitsOk(s, i + 1)
    ELSE FALSE

RECURSIVE DigitsVal(_, _, _)
DigitsVal(s, i, acc) ==
    IF i > Len(s) THEN acc
    ELSE IF Ch(s, i) = "_" THEN DigitsVal(s, i + 1, acc)
    ELSE DigitsVal(s, i + 1, 10 * acc + IndexIn(Digits, Ch(s, i)))

\* int(text): [ok |-> FALSE] stands for ValueError
PyInt(text) ==
    LET t    == Strip(text)
        sgn  == IF Len(t) > 0 /\ Ch(t, 1) \in {"+", "-"} THEN Ch(t, 1) ELSE ""
        body == IF sgn = "" THEN t ELSE Tail(t)
    IN  IF Len(body) = 0 \/ ~DigitsOk(body, 1)
        THEN [ok |-> FALSE, v |-> 0]
        ELSE [ok |-> TRUE,
              v  |-> IF sgn = "-" THEN 0 - DigitsVal(body, 1, 0)
                                  ELSE DigitsVal(body, 1, 0)]

RECURSIVE NatStr(_)
NatStr(n) ==
    IF n < 10 THEN Ch(Digits, n + 1)
    ELSE NatStr(n \div 10) \o Ch(Digits, (n % 10) + 1)

\* str(n) for an int
PyStr(n) == IF n < 0 THEN "-" \o NatStr(0 - n) ELSE NatStr(n)

\* a // b for b # 0, rounding toward negative infinity
\* integer division rounding toward zero
PyTruncDiv(a, b) ==
    LET q == (IF a < 0 THEN 0 - a ELSE a) \div (IF b < 0 THEN 0 - b ELSE b)
    IN  IF (a < 0) = (b < 0) THEN q ELSE 0 - q

PyFloorDiv(a, b) == IF b > 0 THEN a \div b ELSE (0 - a) \div (0 - b)

RECURSIVE Escape(_, _)
\* body of repr(str): backslash and the chosen quote are escaped
Escape(s, q) ==
    LET hits == Positions(s, "\\") \cup Positions(s, q)
    IN  IF hits = {} THEN s
        ELSE LET j == First(hits)
             IN  SubSeq(s, 1, j - 1) \o "\\" \o Ch(s, j)
                 \o Escape(SubSeq(s, j + 1, Len(s)), q)

\* repr(s) for a str: single quotes unless s holds ' and no "; a text with
\* neither quotes nor backslashes is wrapped as it is
PyRepr(s) ==
    IF {i \in 1..Len(s) : Ch(s, i) \in {"'", "\"", "\\"}} = {}
    THEN "'" \o s \o "'"
    ELSE LET q == IF Contains(s, "'") /\ ~Contains(s, "\"") THEN "\"" ELSE "'"
         IN  q \o Escape(s, q) \o q

RECURSIVE Join(_, _)
Join(items, sep) ==
    IF Len(items) = 0 THEN ""
    ELSE IF Len(items) = 1 THEN items[1]
    ELSE items[1] \o sep \o Join(Tail(items), sep)

\* str(list) and str(tuple) over the reprs of the elements
PyStrList(reprs) == "[" \o Join(reprs, ", ") \o "]"
PyStrTuple(reprs) == "(" \o Join(reprs, ", ") \o ")"

----------------------------------------------------------------------------
(* Addresses *)

\* hashlib.sha512(data).hexdigest(): 128 hex characters determined by data
hash(data) == [sha512 |-> data]

\* digest[lo:hi]
Slice(digest, lo, hi) == [of |-> digest, lo |-> lo, hi |-> hi]

RECURSIVE AddressLen(_)
\* number of hex characters of an address (a concatenation of slices)
AddressLen(addr) ==
    IF Len(addr) = 0 THEN 0
    ELSE (addr[1].hi - addr[1].lo) + AddressLen(Tail(addr))

----------------------------------------------------------------------------
(* The context the validator supplies *)

\* a context at the start of an apply call; file is ds-color.txt as it stands
NewContext(s, file) ==
    [store |-> s, calls |-> <<>>, events |-> <<>>, result |-> "OK",
     clock |-> <<>>, colorFile |-> file, faultAt |-> 0]

\* a context whose k-th operation raises instead of answering
FaultyContext(s, file, k) == [NewContext(s, file) EXCEPT !.faultAt = k]

\* one operation of the context.  Once an exception is in flight the rest of
\* the handler is not executed: no handler catches around a context call.  The
\* operation the context faults raises without effect; any other is recorded
\* with its answer ret and leaves the context as done.
ContextCall(ctx, op, address, data, ret, done) ==
    IF ctx.result # "OK" THEN ctx
    ELSE IF Len(ctx.calls) + 1 = ctx.faultAt
    THEN [ctx EXCEPT
            !.calls = Append(@, [op |-> op, address |-> address, data |-> data,
                                 ret |-> <<>>, raised |-> TRUE]),
            !.result = "ContextFault"]
    ELSE [done EXCEPT
            !.calls = Append(ctx.calls, [op |-> op, address |-> address,
                                         data |-> data, ret |-> ret,
                                         raised |-> FALSE])]

\* what context.get_state([address]) returns: the entries found, [] when absent
Entries(ctx, address) ==
    IF address \in DOMAIN ctx.store THEN <<[data |-> ctx.store[address]]>> ELSE <<>>

\* context.get_state([address])
GetState(ctx, address) ==
    ContextCall(ctx, "get_state", address, "", Entries(ctx, address), ctx)

\* context.set_state dropping every other address of the ledger
SetStateAlone(ctx, address, data, ack) ==
    ContextCall(ctx, "set_state", address, data, IF ack THEN <<address>> ELSE <<>>,
        [ctx EXCEPT !.store = IF ack THEN [a \in {address} |-> data] ELSE @])

\* what context.set_state returns: the addresses persisted
Acknowledged(address, ack) == IF ack THEN <<address>> ELSE <<>>

\* context.set_state({address: data}); ack is the validator's answer: the address
\* is persisted and acknowledged, or nothing is persisted and [] is returned
SetState(ctx, address, data, ack) ==
    ContextCall(ctx, "set_state", address, data, Acknowledged(address, ack),
        [ctx EXCEPT
            !.store = IF ack
                      THEN [a \in DOMAIN ctx.store \cup {address} |->
                                IF a = address THEN data ELSE ctx.store[a]]
                      ELSE @])

\* what context.delete_state returns: the addresses removed
Removed(ctx, address, ack) ==
    IF ack /\ address \in DOMAIN ctx.store THEN <<address>> ELSE <<>>

\* context.delete_state([address]); an absent address is not an error
DeleteState(ctx, address, ack) ==
    ContextCall(ctx, "delete_state", address, "", Removed(ctx, address, ack),
        [ctx EXCEPT
            !.store = IF ack
                      THEN [a \in DOMAIN ctx.store \ {address} |-> ctx.store[a]]
                      ELSE @])

\* context.add_event(event_type, attributes)
AddEvent(ctx, type, attributes) ==
    ContextCall(ctx, "add_event", <<>>, "", <<>>,
        [ctx EXCEPT
            !.events = Append(@, [event_type |-> type, attributes |-> attributes])])

\* an exception leaves the handler, unless one is in flight already
Raise(ctx, exception) ==
    IF ctx.result # "OK" THEN ctx ELSE [ctx EXCEPT !.result = exception]

----------------------------------------------------------------------------
(* Calculator family: Calculator/pyprocessor/calculator_tp.py *)

CALCULATOR_FAMILY_NAME == "calculator"

\* _get_calculator_address taking half of the key's slice
get_calculator_address_short(from_key) ==
    <<Slice(hash(CALCULATOR_FAMILY_NAME), 0, 6), Slice(hash(from_key), 0, 32)>>

get_calculator_address(from_key) ==
    <<Slice(hash(CALCULATOR_FAMILY_NAME), 0, 6), Slice(hash(from_key), 0, 64)>>

\* the tail shared by add, mul, sub and div: encode the count, write it, check
\* the acknowledgement
\* the tail of add, mul, sub and div storing the count as a quoted text
calculator_store_quoted(ctx, address, new_count, ack) ==
    LET state_data == PyRepr(PyStr(new_count))
        c2         == SetState(ctx, address, state_data, ack)
    IN  IF Len(Acknowledged(address, ack)) < 1
        THEN Raise(c2, "InternalError")
        ELSE c2

\* the tail of add, mul, sub and div writing a second time after an
\* unacknowledged write
calculator_store_retrying(ctx, address, new_count, ack) ==
    LET state_data == PyStr(new_count)
        c2         == SetState(ctx, address, state_data, ack)
    IN  IF Len(Acknowledged(address, ack)) < 1
        THEN Raise(SetState(c2, address, state_data, ack), "InternalError")
        ELSE c2

calculator_store(ctx, address, new_count, ack) ==
    LET state_data == PyStr(new_count)
        c2         == SetState(ctx, address, state_data, ack)
    IN  IF Len(Acknowledged(address, ack)) < 1
        THEN Raise(c2, "InternalError")
        ELSE c2

\* _make_add catching whatever get_state raises and going on as if nothing
\* were stored
make_add_catching(ctx, amount, from_key, ack) ==
    LET calculator_address == get_calculator_address(from_key)
        c1                 == [GetState(ctx, calculator_address) EXCEPT !.result = "OK"]
        state_entries      == IF c1.calls[Len(c1.calls)].raised THEN <<>>
                              ELSE Entries(ctx, calculator_address)
        amt                == PyInt(amount)
    IN  IF state_entries = <<>>
        THEN IF ~amt.ok THEN Raise(c1, "ValueError")
             ELSE calculator_store(c1, calculator_address, amt.v, ack)
        ELSE LET count == PyInt(state_entries[1].data)
             IN  IF ~count.ok THEN Raise(c1, "InternalError")
                 ELSE IF ~amt.ok THEN Raise(c1, "ValueError")
                 ELSE calculator_store(c1, calculator_address, amt.v + count.v, ack)

make_add(ctx, amount, from_key, ack) ==
    LET calculator_address == get_calculator_address(from_key)
        state_entries      == Entries(ctx, calculator_address)
        c1                 == GetState(ctx, calculator_address)
        amt                == PyInt(amount)
    IN  IF state_entries = <<>>
        THEN IF ~amt.ok THEN Raise(c1, "ValueError")
             ELSE calculator_store(c1, calculator_address, amt.v, ack)
        ELSE LET count == PyInt(state_entries[1].data)
             IN  IF ~count.ok THEN Raise(c1, "InternalError")
                 ELSE IF ~amt.ok THEN Raise(c1, "ValueError")
                 ELSE calculator_store(c1, calculator_address, amt.v + count.v, ack)

make_mul(ctx, amount, from_key, ack) ==
    LET calculator_address == get_calculator_address(from_key)
        state_entries      == Entries(ctx, calculator_address)
        c1                 == GetState(ctx, calculator_address)
        amt                == PyInt(amount)
    IN  IF state_entries = <<>>
        THEN IF ~amt.ok THEN Raise(c1, "ValueError")
             ELSE calculator_store(c1, calculator_address, amt.v, ack)
        ELSE LET count == PyInt(state_entries[1].data)
             IN  IF ~count.ok THEN Raise(c1, "InternalError")
                 ELSE IF ~amt.ok THEN Raise(c1, "ValueError")
                 ELSE calculator_store(c1, calculator_address, amt.v * count.v, ack)

\* _make_sub with the operands of the subtraction exchanged
make_sub_swapped(ctx, amount, from_key, ack) ==
    LET calculator_address == get_calculator_address(from_key)
        state_entries      == Entries(ctx, calculator_address)
        c1                 == GetState(ctx, calculator_address)
        amt                == PyInt(amount)
    IN  IF state_entries = <<>>
        THEN Raise(c1, "UnboundLocalError")
        ELSE LET count == PyInt(state_entries[1].data)
             IN  IF ~count.ok THEN Raise(c1, "InternalError")
                 ELSE IF ~amt.ok THEN Raise(c1, "ValueError")
                 ELSE calculator_store(c1, calculator_address, amt.v - count.v, ack)

make_sub(ctx, amount, from_key, ack) ==
    LET calculator_address == get_calculator_address(from_key)
        state_entries      == Entries(ctx, calculator_address)
        c1                 == GetState(ctx, calculator_address)
        amt                == PyInt(amount)
    IN  IF state_entries = <<>>
        \* the log call after the branch reads count, assigned only in the else branch
        THEN Raise(c1, "UnboundLocalError")
        ELSE LET count == PyInt(state_entries[1].data)
             IN  IF ~count.ok THEN Raise(c1, "InternalError")
                 ELSE IF ~amt.ok THEN Raise(c1, "ValueError")
                 ELSE calculator_store(c1, calculator_address, count.v - amt.v, ack)

make_div(ctx, amount, from_key, ack) ==
    LET calculator_address == get_calculator_address(from_key)
        state_entries      == Entries(ctx, calculator_address)
        c1                 == GetState(ctx, calculator_address)
        amt                == PyInt(amount)
    IN  IF state_entries = <<>>
        THEN IF ~amt.ok THEN Raise(c1, "ValueError")
             ELSE calculator_store(c1, calculator_address, amt.v, ack)
        ELSE LET count == PyInt(state_entries[1].data)
             IN  IF ~count.ok THEN Raise(c1, "InternalError")
                 ELSE IF ~amt.ok THEN Raise(c1, "ValueError")
                 ELSE IF amt.v = 0 THEN Raise(c1, "ZeroDivisionError")
                 ELSE calculator_store(c1, calculator_address,
                                       PyFloorDiv(count.v, amt.v), ack)

\* _empty_calculator writing the zero whether or not a record is stored
empty_calculator_unguarded(ctx, amount, from_key, ack) ==
    LET calc_address == get_calculator_address(from_key)
        c1           == GetState(ctx, calc_address)
        c2           == SetState(c1, calc_address, PyStr(0), ack)
    IN  IF Len(Acknowledged(calc_address, ack)) < 1
        THEN Raise(c2, "InternalError")
        ELSE c2

\* _empty_calculator removing the record instead of zeroing it
empty_calculator_deleting(ctx, amount, from_key, ack) ==
    LET calc_address  == get_calculator_address(from_key)
        state_entries == Entries(ctx, calc_address)
        c1            == GetState(ctx, calc_address)
    IN  IF state_entries = <<>>
        THEN c1
        ELSE DeleteState(c1, calc_address, ack)

empty_calculator(ctx, amount, from_key, ack) ==
    LET calc_address  == get_calculator_address(from_key)
        state_entries == Entries(ctx, calc_address)
        c1            == GetState(ctx, calc_address)
    IN  IF state_entries = <<>>
        THEN c1
        ELSE LET c2 == SetState(c1, calc_address, PyStr(0), ack)
             IN  IF Len(Acknowledged(calc_address, ack)) < 1
                 THEN Raise(c2, "InternalError")
                 ELSE c2

\* CalculatorTransactionHandler.apply
\* apply with the final else branch clearing the record instead of logging
calculator_apply_clearing(ctx, payload, from_key, ack) ==
    LET payload_list == Split(payload, ",")
    IN  IF Len(payload_list) < 2 THEN Raise(ctx, "IndexError")
        ELSE LET action == payload_list[1]
                 amount == payload_list[2]
             IN  CASE action = "add"   -> make_add(ctx, amount, from_key, ack)
                   [] action = "mul"   -> make_mul(ctx, amount, from_key, ack)
                   [] action = "sub"   -> make_sub(ctx, amount, from_key, ack)
                   [] action = "div"   -> make_div(ctx, amount, from_key, ack)
                   [] OTHER            -> empty_calculator(ctx, amount, from_key, ack)

calculator_apply(ctx, payload, from_key, ack) ==
    LET payload_list == Split(payload, ",")
    IN  IF Len(payload_list) < 2 THEN Raise(ctx, "IndexError")
        ELSE LET action == payload_list[1]
                 amount == payload_list[2]
             IN  CASE action = "add"   -> make_add(ctx, amount, from_key, ack)
                   [] action = "mul"   -> make_mul(ctx, amount, from_key, ack)
                   [] action = "sub"   -> make_sub(ctx, amount, from_key, ack)
                   [] action = "div"   -> make_div(ctx, amount, from_key, ack)
                   [] action = "clear" -> empty_calculator(ctx, amount, from_key, ack)
                   [] OTHER            -> ctx

----------------------------------------------------------------------------
(* Patient family: sawtooth-privacy/pyprocessor/patient_tp.py *)

PATIENT_FAMILY_NAME == "patient"

\* _get_patient_address leaving psid out of the address
get_patient_address_uid_only(uid, psid) ==
    <<Slice(hash(PATIENT_FAMILY_NAME), 0, 6), Slice(hash(uid), 0, 32),
      Slice(hash(uid), 32, 64)>>

get_patient_address(uid, psid) ==
    <<Slice(hash(PATIENT_FAMILY_NAME), 0, 6),
      Slice(hash(uid), 0, 32), Slice(hash(psid), 0, 32)>>

\* now is what datetime.now().strftime("%d/%m/%Y %H:%M:%S") gives during the call
\* _make_register keeping a record that is already stored
make_register_keeping(ctx, uid, psid, status, from_key, ack, now) ==
    LET patient_address   == get_patient_address(uid, psid)
        c0                == [ctx EXCEPT !.clock = Append(@, now)]
        dt_string         == now
        transaction_field == <<PyRepr(uid), PyRepr(psid), PyRepr(status),
                               PyStr(0), PyStr(0), PyRepr(dt_string)>>
        state_entries     == Entries(ctx, patient_address)
        state_data        == IF state_entries = <<>>
                             THEN PyStrList(transaction_field)
                             ELSE state_entries[1].data
        c1                == SetState(c0, patient_address, state_data, ack)
    IN  IF Len(Acknowledged(patient_address, ack)) < 1
        THEN Raise(c1, "InternalError")
        ELSE AddEvent(c1, "cookiejar/bake", <<<<"cookies-baked", uid>>>>)

make_register(ctx, uid, psid, status, from_key, ack, now) ==
    LET patient_address   == get_patient_address(uid, psid)
        c0                == [ctx EXCEPT !.clock = Append(@, now)]
        dt_string         == now
        transaction_field == <<PyRepr(uid), PyRepr(psid), PyRepr(status),
                               PyStr(0), PyStr(0), PyRepr(dt_string)>>
        state_data        == PyStrList(transaction_field)
        c1                == SetState(c0, patient_address, state_data, ack)
    IN  IF Len(Acknowledged(patient_address, ack)) < 1
        THEN Raise(c1, "InternalError")
        ELSE AddEvent(c1, "cookiejar/bake", <<<<"cookies-baked", uid>>>>)

\* _make_delete is a classmethod declared (self, cls, context, uid, psid): the
\* class is bound to self, and the caller's arguments fill cls, context, uid, psid
\* in order.  positional is the caller's argument list.
patient_make_delete(positional, ack) ==
    IF Len(positional) < 4
    THEN Raise(positional[1], "TypeError")
    ELSE LET context         == positional[2]
             uid             == positional[3]
             psid            == positional[4]
             patient_address == get_patient_address(uid, psid)
             c1              == DeleteState(context, patient_address, ack)
         \* the class has no _address_cache attribute
         IN  Raise(c1, "AttributeError")

\* _empty_cookie_jar calls _get_patient_address(from_key) with one argument for
\* its two parameters: the call raises before the context is used
empty_cookie_jar(ctx, amount, from_key, ack) ==
    Raise(ctx, "TypeError")

\* PatientTransactionHandler.apply
patient_apply(ctx, payload, from_key, ack, now) ==
    LET payload_list == Split(payload, ",")
    IN  IF Len(payload_list) < 4 THEN Raise(ctx, "IndexError")
        ELSE LET action == payload_list[1]
                 uid    == payload_list[2]
                 psid   == payload_list[3]
                 status == payload_list[4]
             IN  CASE action = "register" ->
                        make_register(ctx, uid, psid, status, from_key, ack, now)
                   [] action = "delete" ->
                        patient_make_delete(<<ctx, uid, psid>>, ack)
                   [] action = "clear" ->
                        empty_cookie_jar(ctx, uid, from_key, ack)
                   [] OTHER -> ctx

----------------------------------------------------------------------------
(* Smartmed family: smartMed/pyprocessor/smartmed_tp.py *)

SMARTMED_FAMILY_NAME == "smartmed"

\* _get_smartmed_address deriving the address from the signer key and the query
get_smartmed_address_signed(from_key, query) ==
    <<Slice(hash(SMARTMED_FAMILY_NAME), 0, 6), Slice(hash(from_key), 0, 32),
      Slice(hash(query), 0, 32)>>

get_smartmed_address(from_key, query) ==
    <<Slice(hash(SMARTMED_FAMILY_NAME), 0, 6), Slice(hash(query), 0, 64)>>

Upper == "ABCDEFGHIJKLMNOPQRSTUVWXYZ"
Lower == "abcdefghijklmnopqrstuvwxyz"

\* str.casefold() of one character of the model's alphabet
FoldChar(c, hits) == IF hits = {} THEN c ELSE Ch(Lower, First(hits))

RECURSIVE Casefold(_)
\* str.casefold() over the model's alphabet
Casefold(s) ==
    IF Len(s) = 0 THEN ""
    ELSE FoldChar(Ch(s, 1), Positions(Upper, Ch(s, 1))) \o Casefold(Tail(s))

RECURSIVE Reprs(_)
\* the reprs of the elements of a list or tuple of str
Reprs(fields) ==
    IF Len(fields) = 0 THEN <<>>
    ELSE <<PyRepr(fields[1])>> \o Reprs(Tail(fields))

\* the body of the loop of _make_find for one line's fields
mark_waiting(query_result, data, amount) ==
    IF Casefold(data[3]) # amount THEN query_result
    ELSE CASE data[2] = "DS1Pubkey" -> [query_result EXCEPT ![2] = "waiting"]
           [] data[2] = "DS2Pubkey" -> [query_result EXCEPT ![3] = "waiting"]
           [] data[2] = "DS3Pubkey" -> [query_result EXCEPT ![4] = "waiting"]
           [] data[2] = "DS4Pubkey" -> [query_result EXCEPT ![5] = "waiting"]
           [] data[2] = "DS5Pubkey" -> [query_result EXCEPT ![6] = "waiting"]
           [] OTHER -> query_result

RECURSIVE find_loop(_, _, _, _, _)
\* the loop of _make_find from line i on; data is the fields of the line before
\* (<<>> before the first line).  A line with fewer than three fields ends the
\* loop with IndexError.
find_loop(lines, i, query_result, data, amount) ==
    IF i > Len(lines)
    THEN [error |-> "", query_result |-> query_result, data |-> data]
    ELSE IF Cardinality(Positions(Strip(lines[i]), ",")) < 2
    THEN [error |-> "IndexError", query_result |-> query_result, data |-> data]
    ELSE find_loop(lines, i + 1,
                   mark_waiting(query_result, Split(Strip(lines[i]), ","), amount),
                   Split(Strip(lines[i]), ","), amount)

\* the part of _make_find after the loop storing the participant key written to
\* ds-color.txt as a seventh item
find_store_with_key(ctx, query_address, loop, ack) ==
    IF loop.error # "" THEN Raise(ctx, loop.error)
    ELSE IF loop.data = <<>> THEN Raise(ctx, "UnboundLocalError")
    ELSE SetState([ctx EXCEPT !.colorFile = loop.data[2] \o "\n"],
                  query_address,
                  PyStrList(Reprs(Append(loop.query_result, loop.data[2]))), ack)

\* the part of _make_find after the loop
find_store(ctx, query_address, loop, ack) ==
    IF loop.error # "" THEN Raise(ctx, loop.error)
    \* data is assigned in the loop body only
    ELSE IF loop.data = <<>> THEN Raise(ctx, "UnboundLocalError")
    ELSE SetState([ctx EXCEPT !.colorFile = loop.data[2] \o "\n"],
                  query_address, PyStrList(Reprs(loop.query_result)), ack)

\* _make_find reading the record first and starting from its slots
make_find_keeping(ctx, amount, qid, from_key, ack, lines) ==
    LET query_address == get_smartmed_address(from_key, qid)
        state_entries == Entries(ctx, query_address)
        c1            == GetState(ctx, query_address)
        fresh         == <<qid, "n/a", "n/a", "n/a", "n/a", "n/a">>
        start         == IF state_entries = <<>> THEN fresh
                         ELSE [k \in 1..6 |->
                                 IF k = 1 THEN qid
                                 ELSE Split(state_entries[1].data, ",")[k]]
    IN  find_store([c1 EXCEPT !.colorFile = ""], query_address,
                   find_loop(lines, 1, start, <<>>, amount), ack)

\* lines is what readlines() gives for ./pyprocessor/dslist.txt; both files are
\* opened, and ds-color.txt is truncated by mode "w"
make_find(ctx, amount, qid, from_key, ack, lines) ==
    find_store([ctx EXCEPT !.colorFile = ""],
               get_smartmed_address(from_key, qid),
               find_loop(lines, 1, <<qid, "n/a", "n/a", "n/a", "n/a", "n/a">>,
                         <<>>, amount),
               ack)

\* the write-back of _make_interested with the event emitted before the write
interested_store_event_first(ctx, query_address, f, username, status, ack) ==
    IF Len(f) # 6 THEN Raise(ctx, "ValueError")
    ELSE LET st == IF status = "yes" THEN "inetersted" ELSE "not interested"
             k  == CASE username = "ds1" -> 1
                     [] username = "ds2" -> 2
                     [] username = "ds3" -> 3
                     [] username = "ds4" -> 4
                     [] username = "ds5" -> 5
                     [] OTHER -> 0
         IN  IF k = 0
             THEN Raise(ctx, "UnboundLocalError")
             ELSE LET state_data == PyStrTuple(Reprs([f EXCEPT ![k + 1] = st]))
                      c2 == AddEvent(ctx, "smartmed/bake",
                                     <<<<"cookies-baked", username>>>>)
                      c3 == SetState(c2, query_address, state_data, ack)
                  IN  IF Len(Acknowledged(query_address, ack)) < 1
                      THEN Raise(c3, "InternalError")
                      ELSE c3

\* the rewrite of one slot and the write-back of _make_interested; f is the
\* stored record split on ","
interested_store(ctx, query_address, f, username, status, ack) ==
    IF Len(f) # 6 THEN Raise(ctx, "ValueError")
    ELSE LET st == IF status = "yes" THEN "inetersted" ELSE "not interested"
             k  == CASE username = "ds1" -> 1
                     [] username = "ds2" -> 2
                     [] username = "ds3" -> 3
                     [] username = "ds4" -> 4
                     [] username = "ds5" -> 5
                     [] OTHER -> 0
         IN  IF k = 0
             \* query_result is assigned under the five ifs only
             THEN Raise(ctx, "UnboundLocalError")
             ELSE LET state_data == PyStrTuple(Reprs([f EXCEPT ![k + 1] = st]))
                      c2 == SetState(ctx, query_address, state_data, ack)
                  IN  IF Len(Acknowledged(query_address, ack)) < 1
                      THEN Raise(c2, "InternalError")
                      ELSE AddEvent(c2, "smartmed/bake",
                                    <<<<"cookies-baked", username>>>>)

\* _make_interested starting a fresh record when the query has none
make_interested_creating(ctx, username, qid, status, from_key, ack) ==
    LET query_address == get_smartmed_address(from_key, qid)
        state_entries == Entries(ctx, query_address)
        c1            == GetState(ctx, query_address)
    IN  IF state_entries = <<>>
        THEN interested_store(c1, query_address,
                              <<qid, "n/a", "n/a", "n/a", "n/a", "n/a">>,
                              username, status, ack)
        ELSE interested_store(c1, query_address,
                              Split(state_entries[1].data, ","),
                              username, status, ack)

make_interested(ctx, username, qid, status, from_key, ack) ==
    LET query_address == get_smartmed_address(from_key, qid)
        state_entries == Entries(ctx, query_address)
        c1            == GetState(ctx, query_address)
    IN  IF state_entries = <<>> THEN Raise(c1, "IndexError")
        ELSE interested_store(c1, query_address,
                              Split(state_entries[1].data, ","),
                              username, status, ack)

\* _make_delete refusing an address that holds no record
smartmed_make_delete_strict(ctx, qid, from_key, ack) ==
    IF get_smartmed_address(from_key, qid) \in DOMAIN ctx.store
    THEN DeleteState(ctx, get_smartmed_address(from_key, qid), ack)
    ELSE Raise(ctx, "InternalError")

smartmed_make_delete(ctx, qid, from_key, ack) ==
    DeleteState(ctx, get_smartmed_address(from_key, qid), ack)

\* smartmedTransactionHandler.apply
smartmed_apply(ctx, payload, from_key, ack, lines) ==
    LET payload_list == Split(payload, ",")
        action       == payload_list[1]
        n            == Len(payload_list)
    IN  CASE action = "find" ->
                IF n < 3 THEN Raise(ctx, "IndexError")
                ELSE make_find(ctx, payload_list[2], payload_list[3], from_key,
                               ack, lines)
          [] action = "interested" ->
                IF n < 9 THEN Raise(ctx, "IndexError")
                ELSE make_interested(ctx, payload_list[2], payload_list[3],
                                     payload_list[4], from_key, ack)
          [] action = "delete" ->
                IF n < 2 THEN Raise(ctx, "IndexError")
                ELSE smartmed_make_delete(ctx, payload_list[2], from_key, ack)
          [] OTHER -> ctx

----------------------------------------------------------------------------
(* Transactions and environment answers the model draws from *)

Families == {CALCULATOR_FAMILY_NAME, PATIENT_FAMILY_NAME, SMARTMED_FAMILY_NAME}

\* signer public keys
Signers == {"keyA", "keyB"}

Txns(payloads, signer) == {[payload |-> p, signer |-> signer] : p \in payloads}

CalculatorPayloads ==
    {"add,5", "mul,3", "sub,2", "div,2", "div,-2", "div,0", "clear,0",
     "add,x", "add,5,6", "clear", "noop,1", "noop"}

PatientPayloads ==
    {"register,a,b,pos", "register,a,b,neg", "register,b,a,pos",
     "register,a,b", "register,a,b,pos,extra",
     "delete,a,b,pos", "delete,a,b", "clear,a,b,pos", "noop,a,b,pos", "noop"}

SmartmedPayloads ==
    {"find,red,q1", "find,Red,q1", "find,blue,q2", "find,red", "find,red,q1,extra",
     "interested,ds1,q1,yes,a,b,c,d,e", "interested,ds3,q1,no,a,b,c,d,e",
     "interested,ds9,q1,yes,a,b,c,d,e", "interested,ds1,q1,yes",
     "delete,q1", "delete,q2", "delete", "noop", "noop,q1"}

\* the transactions of Spec: every payload from one signer, a few from a second
CalculatorTransactions ==
    Txns(CalculatorPayloads, "keyA") \cup Txns({"add,5", "clear,0"}, "keyB")

PatientTransactions ==
    Txns(PatientPayloads, "keyA") \cup Txns({"register,a,b,neg"}, "keyB")

SmartmedTransactions ==
    Txns(SmartmedPayloads, "keyA")
        \cup Txns({"interested,ds3,q1,no,a,b,c,d,e", "delete,q1"}, "keyB")

\* the transactions of SpecTrace, which records whole runs of them
CalculatorScript ==
    Txns({"add,5", "add,x", "mul,3", "sub,2", "div,0", "clear,0"}, "keyA")
        \cup Txns({"mul,3"}, "keyB")

PatientScript ==
    Txns({"register,a,b,pos", "register,a,b,neg", "register,b,a,pos"}, "keyA")

SmartmedScript ==
    Txns({"find,red,q1", "interested,ds1,q1,yes,a,b,c,d,e",
          "interested,ds3,q1,no,a,b,c,d,e", "delete,q1"}, "keyA")
        \cup Txns({"interested,ds3,q1,no,a,b,c,d,e"}, "keyB")

\* values of datetime.now() rendered by strftime
Timestamps == {"04/11/2026 10:00:00", "04/11/2026 10:00:01"}

\* contents of ./pyprocessor/dslist.txt: a populated list, an empty file, a
\* list with a short line
DsLists ==
    {<<"1,DS1Pubkey,Red", "2,DS2Pubkey,blue", "3,DS3Pubkey,RED", "4,DS4Pubkey,green">>,
     <<>>,
     <<"1,DS1Pubkey,Red", "2,DS2Pubkey">>}

\* a calculator record that is not the text of an integer
CorruptRecord == "abc"

NoTxn == [payload |-> "", signer |-> ""]

EmptyStore == [a \in {} |-> ""]

\* no calls are in progress side by side
NoRace == <<>>

\* ledgers a processor may be started on: nothing stored, or (calculator) a
\* signer's record corrupted beforehand
InitStores(family) ==
    IF family = CALCULATOR_FAMILY_NAME
    THEN UNION {[{get_calculator_address(k) : k \in S} -> {CorruptRecord}] :
                    S \in SUBSET Signers}
    ELSE {EmptyStore}

\* the model keeps calculator values and record lengths within its bounds
WithinBounds(s) ==
    \A a \in DOMAIN s :
        /\ Len(s[a]) <= MaxDataLen
        /\ \A n \in {PyInt(s[a])} : n.ok => (n.v <= MaxAbs /\ n.v >= 0 - MaxAbs)

----------------------------------------------------------------------------
(* The state machine *)

InitWith(stores) ==
    /\ handler \in Families
    /\ store \in stores[handler]
    /\ pre = store
    /\ txn = NoTxn
    /\ result = "none"
    /\ calls = <<>>
    /\ events = <<>>
    /\ clock = <<>>
    /\ dslist \in (IF handler = SMARTMED_FAMILY_NAME THEN DsLists ELSE {<<>>})
    /\ colorFile = ""
    /\ log = <<>>
    /\ race = NoRace

Init == InitWith([f \in Families |-> InitStores(f)])

\* the validator hands a transaction to apply; out is the context when apply ends
Applied(out, payload, signer) ==
    /\ store' = out.store
    /\ pre' = store
    /\ txn' = [payload |-> payload, signer |-> signer]
    /\ result' = out.result
    /\ calls' = out.calls
    /\ events' = out.events
    /\ clock' = out.clock
    /\ colorFile' = out.colorFile
    /\ UNCHANGED <<handler, dslist, race>>

CalculatorApply(payload, signer, ack) ==
    /\ handler = CALCULATOR_FAMILY_NAME
    /\ \E out \in {calculator_apply(NewContext(store, colorFile), payload, signer, ack)} :
            Applied(out, payload, signer)

PatientApply(payload, signer, ack, now) ==
    /\ handler = PATIENT_FAMILY_NAME
    /\ \E out \in {patient_apply(NewContext(store, colorFile), payload, signer, ack, now)} :
            Applied(out, payload, signer)

SmartmedApply(payload, signer, ack) ==
    /\ handler = SMARTMED_FAMILY_NAME
    /\ \E out \in {smartmed_apply(NewContext(store, colorFile), payload, signer, ack,
                                  dslist)} :
            Applied(out, payload, signer)

CalculatorStep(transactions) ==
    \E t \in transactions, ack \in BOOLEAN :
        CalculatorApply(t.payload, t.signer, ack)

PatientStep(transactions) ==
    \E t \in transactions, ack \in BOOLEAN, now \in Timestamps :
        PatientApply(t.payload, t.signer, ack, now)

SmartmedStep(transactions) ==
    \E t \in transactions, ack \in BOOLEAN :
        SmartmedApply(t.payload, t.signer, ack)

CalculatorNext ==
    /\ CalculatorStep(CalculatorTransactions)
    /\ WithinBounds(store')
    /\ UNCHANGED log

PatientNext ==
    /\ PatientStep(PatientTransactions)
    /\ WithinBounds(store')
    /\ UNCHANGED log

SmartmedNext ==
    /\ SmartmedStep(SmartmedTransactions)
    /\ WithinBounds(store')
    /\ UNCHANGED log

Next == CalculatorNext \/ PatientNext \/ SmartmedNext

Spec == Init /\ [][Next]_vars

\* the context when the handler of the running processor has applied
\* transaction t in context ctx; ack and now are the answers of the validator
\* and of the host's clock
RunIn(ctx, t, ack, now) ==
    CASE handler = CALCULATOR_FAMILY_NAME ->
            calculator_apply(ctx, t.payload, t.signer, ack)
      [] handler = PATIENT_FAMILY_NAME ->
            patient_apply(ctx, t.payload, t.signer, ack, now)
      [] handler = SMARTMED_FAMILY_NAME ->
            smartmed_apply(ctx, t.payload, t.signer, ack, dslist)

Run(s, file, t, ack, now) == RunIn(NewContext(s, file), t, ack, now)

\* the transactions of SpecFault for the running processor: those of every
\* action whose handler reaches the context
FaultScript ==
    CASE handler = CALCULATOR_FAMILY_NAME ->
            Txns({"add,5", "mul,3", "sub,2", "div,2", "clear,0"}, "keyA")
                \cup Txns({"add,5"}, "keyB")
      [] handler = PATIENT_FAMILY_NAME ->
            Txns({"register,a,b,pos", "register,a,b,neg", "register,b,a,pos",
                  "delete,a,b,pos"}, "keyA")
      [] handler = SMARTMED_FAMILY_NAME ->
            Txns({"find,red,q1", "find,blue,q2", "interested,ds1,q1,yes,a,b,c,d,e",
                  "interested,ds3,q1,no,a,b,c,d,e", "delete,q1"}, "keyA")

\* the clock readings that matter to the running processor
Clock ==
    IF handler = PATIENT_FAMILY_NAME THEN Timestamps
    ELSE {CHOOSE now \in Timestamps : TRUE}

\* SpecFault: transactions applied in a context that raises at its
\* k-th operation (the validator aborting the call); a call that issues fewer
\* than k operations runs as in Spec
FaultNext ==
    /\ \E t \in FaultScript, ack \in BOOLEAN, now \in Clock, k \in 1..MaxFaultAt :
            \E out \in {RunIn(FaultyContext(store, colorFile, k), t, ack, now)} :
                Applied(out, t.payload, t.signer)
    /\ WithinBounds(store')
    /\ UNCHANGED log

SpecFault == Init /\ [][FaultNext]_vars

\* SpecRace: two apply calls of one processor in progress side by side.  Each
\* call is cut where it talks to the context: begin takes it up to its
\* get_state, whose answer is the ledger of that moment; finish runs the rest
\* on that answer and issues its set_state or delete_state on the ledger as it
\* then stands.

\* the transactions the two calls are drawn from
RaceScript ==
    CASE handler = CALCULATOR_FAMILY_NAME ->
            Txns({"add,5", "mul,3", "clear,0"}, "keyA") \cup Txns({"add,5", "mul,3"}, "keyB")
      [] handler = PATIENT_FAMILY_NAME ->
            Txns({"register,a,b,pos", "register,a,b,neg", "register,b,a,pos"}, "keyA")
      [] handler = SMARTMED_FAMILY_NAME ->
            Txns({"find,red,q1", "find,blue,q2", "interested,ds3,q1,no,a,b,c,d,e",
                  "delete,q1", "delete,q2"}, "keyA")

\* transactions applied one after the other before the two calls start
RaceSetup ==
    CASE handler = CALCULATOR_FAMILY_NAME ->
            <<[payload |-> "add,5", signer |-> "keyA"],
              [payload |-> "add,5", signer |-> "keyB"],
              [payload |-> "mul,3", signer |-> "keyB"]>>
      [] handler = PATIENT_FAMILY_NAME ->
            <<[payload |-> "register,a,b,pos", signer |-> "keyA"]>>
      [] handler = SMARTMED_FAMILY_NAME ->
            <<[payload |-> "find,red,q1", signer |-> "keyA"],
              [payload |-> "find,red,q2", signer |-> "keyA"]>>

RECURSIVE AfterAll(_, _)
\* the ledger after the transactions ts, each acknowledged, applied to s in turn
AfterAll(s, ts) ==
    IF Len(ts) = 0 THEN s
    ELSE AfterAll(Run(s, "", Head(ts), TRUE, CHOOSE now \in Timestamps : TRUE).store,
                  Tail(ts))

RaceCalls ==
    {[txn |-> t, ack |-> a, now |-> n, pc |-> "ready", seen |-> EmptyStore] :
        t \in RaceScript, a \in BOOLEAN, n \in Clock}

InitRace ==
    /\ handler \in Families
    /\ dslist \in (IF handler = SMARTMED_FAMILY_NAME THEN DsLists ELSE {<<>>})
    /\ store \in {EmptyStore, AfterAll(EmptyStore, RaceSetup)}
    /\ pre = store
    /\ txn = NoTxn
    /\ result = "none"
    /\ calls = <<>>
    /\ events = <<>>
    /\ clock = <<>>
    /\ colorFile = ""
    /\ log = <<>>
    /\ race \in {[init |-> store, order |-> <<>>, procs |-> <<c1, c2>>] :
                    c1 \in RaceCalls, c2 \in RaceCalls}

RECURSIVE Replay(_, _, _)
\* the set_state and delete_state operations among cs issued in context ctx
Replay(ctx, cs, ack) ==
    IF Len(cs) = 0 THEN ctx
    ELSE Replay(CASE Head(cs).op = "set_state" ->
                        SetState(ctx, Head(cs).address, Head(cs).data, ack)
                  [] Head(cs).op = "delete_state" ->
                        DeleteState(ctx, Head(cs).address, ack)
                  [] OTHER -> ctx,
                Tail(cs), ack)

\* the call when it has run on the ledger it saw at its get_state
Ran(c) == RunIn(NewContext(c.seen, colorFile), c.txn, c.ack, c.now)

\* call p starts and reads
RaceBegin(p) ==
    /\ race.procs[p].pc = "ready"
    /\ race' = [race EXCEPT !.procs[p].pc = "read",
                            !.procs[p].seen = store,
                            !.order = Append(@, p)]
    /\ UNCHANGED <<handler, store, pre, txn, result, calls, events, clock, dslist,
                   colorFile, log>>

\* call p computes, writes and ends
RaceFinish(p) ==
    /\ race.procs[p].pc = "read"
    /\ store' = Replay(NewContext(store, colorFile), Ran(race.procs[p]).calls,
                       race.procs[p].ack).store
    /\ race' = [race EXCEPT !.procs[p].pc = "done", !.order = Append(@, p)]
    /\ UNCHANGED <<handler, pre, txn, result, calls, events, clock, dslist,
                   colorFile, log>>

NextRace == \E p \in {1, 2} : RaceBegin(p) \/ RaceFinish(p)

SpecRace == InitRace /\ [][NextRace]_vars

\* SpecTrace: runs of at most MaxCalls transactions on a ledger that starts
\* empty, with every call and its outcome recorded in log
InitTrace == InitWith([f \in Families |-> {EmptyStore}])

\* the call just made is appended to the record
Logged ==
    /\ Len(log) < MaxCalls
    /\ log' = Append(log, [txn |-> txn', result |-> result'])

CalculatorTrace == CalculatorStep(CalculatorScript) /\ Logged

PatientTrace == PatientStep(PatientScript) /\ Logged

SmartmedTrace == SmartmedStep(SmartmedScript) /\ Logged

NextTrace == CalculatorTrace \/ PatientTrace \/ SmartmedTrace

SpecTrace == InitTrace /\ [][NextTrace]_vars

----------------------------------------------------------------------------
(* Vocabulary of the properties *)

\* the decoded payload of the last transaction
Fields == Split(txn.payload, ",")

ActionTag == Fields[1]

\* the action tags each handler dispatches on
Actions(family) ==
    CASE family = CALCULATOR_FAMILY_NAME -> {"add", "mul", "sub", "div", "clear"}
      [] family = PATIENT_FAMILY_NAME    -> {"register", "delete", "clear"}
      [] family = SMARTMED_FAMILY_NAME   -> {"find", "interested", "delete"}

HasApplied == txn # NoTxn

UnknownAction == HasApplied /\ ActionTag \notin Actions(handler)

\* the last apply call issued context operation op
Issued(op) == \E i \in 1..Len(calls) : calls[i].op = op

NoEffect ==
    /\ ~Issued("set_state") /\ ~Issued("delete_state") /\ ~Issued("add_event")
    /\ store = pre
    /\ events = <<>>

\* the address the last calculator transaction works on
SignerAddress == get_calculator_address(txn.signer)

\* the payloads and outcomes recorded so far
LogPayloads == [i \in 1..Len(log) |-> log[i].txn.payload]
LogSigners == {log[i].txn.signer : i \in 1..Len(log)}
LogResults == {log[i].result : i \in 1..Len(log)}

----------------------------------------------------------------------------
(* Calculator round trip and division by zero *)

\* C1: from an absent record, add(5), mul(3), sub(2) signed by one signer, each
\* applied successfully, leave the text 13 at that signer's address.
C1_RoundTrip ==
    ( /\ handler = CALCULATOR_FAMILY_NAME
      /\ LogPayloads = <<"add,5", "mul,3", "sub,2">>
      /\ LogResults = {"OK"}
      /\ Cardinality(LogSigners) = 1 )
    => /\ SignerAddress \in DOMAIN store
       /\ store[SignerAddress] = "13"

C1_Witness ==
    /\ handler = CALCULATOR_FAMILY_NAME
    /\ LogPayloads = <<"add,5", "mul,3", "sub,2">>
    /\ LogResults = {"OK"}
    /\ Cardinality(LogSigners) = 1
    /\ SignerAddress \in DOMAIN pre
    /\ pre[SignerAddress] = "15"

\* the last transaction is a calculator div whose amount is the integer 0, on
\* an address that was absent or held the text of an integer
DivByZero ==
    /\ handler = CALCULATOR_FAMILY_NAME
    /\ HasApplied
    /\ Len(Fields) = 2
    /\ ActionTag = "div"
    /\ PyInt(Fields[2]) = [ok |-> TRUE, v |-> 0]
    /\ SignerAddress \in DOMAIN pre => PyInt(pre[SignerAddress]).ok

\* C2: div with amount 0 is rejected whatever the prior state of the signer's
\* address, and leaves that state as it was (an absent address stays absent).
C2_DivZeroRejected ==
    DivByZero => /\ result # "OK"
                 /\ store = pre

\* C3: division by zero reaches the runtime as InvalidTransaction, never as an
\* uncaught arithmetic fault and never as a success.
C3_DivZeroInvalid ==
    DivByZero => result = "InvalidTransaction"

----------------------------------------------------------------------------
(* Unknown actions *)

\* C4: in each handler an action tag outside the family's set issues no
\* set_state, delete_state or add_event, so the store (absence included) is
\* the same after the call as before.
C4_UnknownNoEffect == UnknownAction => NoEffect

C4_Witness ==
    /\ UnknownAction
    /\ result = "OK"
    /\ store # EmptyStore

\* C5: apply with an unknown action tag returns normally for every payload,
\* a payload carrying only the tag included.
C5_UnknownReturns == UnknownAction => result = "OK"

----------------------------------------------------------------------------
(* Malformed payloads *)

\* the number of fields the payload of an action has: the tag and its arguments
Arity(family, action) ==
    CASE family = CALCULATOR_FAMILY_NAME /\ action \in {"add", "mul", "sub", "div"} -> 2
      [] family = PATIENT_FAMILY_NAME /\ action = "register" -> 4
      [] family = PATIENT_FAMILY_NAME /\ action = "delete" -> 3
      [] family = SMARTMED_FAMILY_NAME /\ action = "find" -> 3
      [] family = SMARTMED_FAMILY_NAME /\ action = "interested" -> 9
      [] family = SMARTMED_FAMILY_NAME /\ action = "delete" -> 2
      [] OTHER -> 0

\* the last payload has the wrong number of fields for its action, or a
\* calculator amount that is no integer (the clear actions, whose arguments the
\* handlers never use, are left out)
Malformed ==
    /\ HasApplied
    /\ Arity(handler, ActionTag) # 0
    /\ \/ Len(Fields) # Arity(handler, ActionTag)
       \/ /\ handler = CALCULATOR_FAMILY_NAME
          /\ ~PyInt(Fields[2]).ok

\* C6: a payload with the wrong field count for its action, or with a numeric
\* field that does not parse, is rejected before any set_state, delete_state or
\* add_event: the ledger is as before.
C6_MalformedRejected ==
    Malformed => /\ result # "OK"
                 /\ NoEffect

\* C7: a malformed payload reaches the runtime as InvalidTransaction and as no
\* other kind of error.
C7_MalformedInvalid ==
    Malformed => result = "InvalidTransaction"

----------------------------------------------------------------------------
(* Storage faults and corrupt state *)

\* the last apply call issued a set_state that acknowledged no address
ShortAcknowledgement ==
    \E i \in 1..Len(calls) : calls[i].op = "set_state" /\ Len(calls[i].ret) < 1

\* C8: whenever set_state acknowledges fewer addresses than requested, apply
\* raises InternalError instead of returning normally.
C8_ShortAckInternalError ==
    ShortAcknowledgement => result = "InternalError"

\* the last transaction is a two-field calculator transaction of a known action
\* on a record that is not the text of an integer
OnCorruptRecord ==
    /\ handler = CALCULATOR_FAMILY_NAME
    /\ HasApplied
    /\ Len(Fields) = 2
    /\ ActionTag \in Actions(CALCULATOR_FAMILY_NAME)
    /\ SignerAddress \in DOMAIN pre
    /\ ~PyInt(pre[SignerAddress]).ok

\* C9: every calculator action on a record that does not parse as an integer
\* raises InternalError and leaves the stored bytes as they were.
C9_CorruptInternalError ==
    OnCorruptRecord => /\ result = "InternalError"
                       /\ store = pre

----------------------------------------------------------------------------
(* Registration *)

\* text without its first and last character
Inner(text) == SubSeq(text, 2, Len(text) - 1)

\* one item of a list literal: a quoted text without its quotes, a number as it is
Item(text) ==
    IF Len(text) >= 2 /\ Ch(text, 1) = "'" /\ Ch(text, Len(text)) = "'"
    THEN Inner(text) ELSE text

\* the items of a list literal "[i1, i2, ...]" read by position
ListItems(text) ==
    [k \in 1..Len(Split(Inner(text), ",")) |-> Item(Strip(Split(Inner(text), ",")[k]))]

\* the last two recorded calls are successful register transactions for the
\* same (uid, psid) with different status values
RegisteredTwice ==
    /\ handler = PATIENT_FAMILY_NAME
    /\ Len(log) >= 2
    /\ \A i \in {Len(log) - 1, Len(log)} :
          /\ log[i].result = "OK"
          /\ Split(log[i].txn.payload, ",")[1] = "register"
    /\ SubSeq(Split(log[Len(log) - 1].txn.payload, ","), 2, 3) = SubSeq(Fields, 2, 3)
    /\ Split(log[Len(log) - 1].txn.payload, ",")[4] # Fields[4]

\* C10: after two consecutive register transactions for the same (uid, psid)
\* with different status values the derived address holds one record, made of
\* the second transaction's uid, psid and status, two zeros and the time of the
\* second call: nothing of the first record is in it.
C10_RegisterOverwrites ==
    RegisteredTwice =>
        /\ get_patient_address(Fields[2], Fields[3]) \in DOMAIN store
        /\ ListItems(store[get_patient_address(Fields[2], Fields[3])])
              = <<Fields[2], Fields[3], Fields[4], "0", "0", clock[1]>>
        /\ Len(log) = 2 => DOMAIN store = {get_patient_address(Fields[2], Fields[3])}

C10_Witness ==
    /\ RegisteredTwice
    /\ Len(log) = 2
    /\ Fields[4] = "neg"

----------------------------------------------------------------------------
(* Deletion *)

\* the last transaction is a patient delete that names a uid and a psid
PatientDelete ==
    /\ handler = PATIENT_FAMILY_NAME
    /\ HasApplied
    /\ ActionTag = "delete"
    /\ Len(Fields) >= 3

\* C11: a patient delete(uid, psid) raises no error and leaves the address
\* derived from (uid, psid) absent, whether or not a record was there.
C11_PatientDeleteRemoves ==
    PatientDelete =>
        /\ result = "OK"
        /\ get_patient_address(Fields[2], Fields[3]) \notin DOMAIN store

\* the last transaction is a smartmed delete that names a query
SmartmedDelete ==
    /\ handler = SMARTMED_FAMILY_NAME
    /\ HasApplied
    /\ ActionTag = "delete"
    /\ Len(Fields) >= 2

\* the address of the query the last smartmed delete names
DeletedAddress == get_smartmed_address(txn.signer, Fields[2])

\* every delete_state of the last call was carried out by the context: the
\* address held nothing, or it is returned as removed
DeleteCarriedOut ==
    \A i \in 1..Len(calls) :
        calls[i].op = "delete_state" =>
            \/ calls[i].address \notin DOMAIN pre
            \/ calls[i].ret # <<>>

----------------------------------------------------------------------------
(* Query records *)

\* the address of the query the last find or interested transaction names
QueryAddress == get_smartmed_address(txn.signer, Fields[3])

\* the last call issued a set_state that the context acknowledged
Persisted ==
    \E i \in 1..Len(calls) : calls[i].op = "set_state" /\ calls[i].ret # <<>>

\* the slot of a participant name, 0 for any other name
SlotOf(username) ==
    CASE username = "ds1" -> 1
      [] username = "ds2" -> 2
      [] username = "ds3" -> 3
      [] username = "ds4" -> 4
      [] username = "ds5" -> 5
      [] OTHER -> 0

\* the last transaction is an interested of a participant ds1..ds5 that ended
\* normally: it read a record, rewrote it and stored it
InterestedStored ==
    /\ handler = SMARTMED_FAMILY_NAME
    /\ HasApplied
    /\ ActionTag = "interested"
    /\ result = "OK"
    /\ Persisted
    /\ QueryAddress \in DOMAIN pre
    /\ QueryAddress \in DOMAIN store

\* the fields of a record other than that of slot k are the same in both texts,
\* the texts read with decoder Decode
SameButSlot(Decode(_), before, after, k) ==
    /\ Len(Decode(after)) = Len(Decode(before))
    /\ \A j \in 1..Len(Decode(before)) :
          j # k + 1 => Decode(after)[j] = Decode(before)[j]

SplitOnComma(text) == Split(text, ",")

\* C13: an interested transaction of participant dsK changes only slot K of the
\* stored record; the qid and the other four slots are as before, read either
\* as the handler reads a record (split on ",") or as a list literal.
C13_OnlySlotChanges ==
    InterestedStored =>
        \/ SameButSlot(SplitOnComma, pre[QueryAddress], store[QueryAddress],
                       SlotOf(Fields[2]))
        \/ SameButSlot(ListItems, pre[QueryAddress], store[QueryAddress],
                       SlotOf(Fields[2]))

\* C14: interested writes "interested" into the participant's slot when the
\* status argument is yes, and "not interested" for any other status.
C14_InterestedText ==
    InterestedStored =>
        ListItems(store[QueryAddress])[SlotOf(Fields[2]) + 1]
            = (IF Fields[4] = "yes" THEN "interested" ELSE "not interested")

\* the last transaction is a find that ended normally and whose record the
\* context persisted
FindStored ==
    /\ handler = SMARTMED_FAMILY_NAME
    /\ HasApplied
    /\ ActionTag = "find"
    /\ result = "OK"
    /\ Persisted
    /\ QueryAddress \in DOMAIN store

\* the reference list tags participant i with the color, letter case aside
Tagged(i, color) ==
    \E l \in 1..Len(dslist) :
        \E d \in {Split(Strip(dslist[l]), ",")} :
            /\ Len(d) >= 3
            /\ d[2] = "DS" \o PyStr(i) \o "Pubkey"
            /\ Casefold(d[3]) = Casefold(color)

\* C15: find(color, qid) persists the six fields qid, s1..s5 where s_i is
\* "waiting" exactly when the reference list tags participant i with the
\* requested color, and "n/a" otherwise.
C15_FindMarksTagged ==
    FindStored =>
        ListItems(store[QueryAddress])
            = <<Fields[3]>> \o [i \in 1..5 |->
                                  IF Tagged(i, Fields[2]) THEN "waiting" ELSE "n/a"]

\* the list find built and encoded in the last call
FindWritten ==
    find_loop(dslist, 1, <<Fields[3], "n/a", "n/a", "n/a", "n/a", "n/a">>, <<>>,
              Fields[2]).query_result

\* C16: a record written by find, split on "," as interested reads it, gives
\* back the field values find wrote, with no brackets, quotes or spaces added.
C16_EncodeDecodeInverse ==
    FindStored => Split(store[QueryAddress], ",") = FindWritten

----------------------------------------------------------------------------
(* Registration event *)

\* C17: a successful patient register(uid, psid, status) emits exactly one
\* event, of type patient/registered, with the single attribute (uid, uid).
C17_RegisterEvent ==
    ( /\ handler = PATIENT_FAMILY_NAME
      /\ HasApplied
      /\ ActionTag = "register"
      /\ result = "OK" )
    => events = <<[event_type |-> "patient/registered",
                   attributes |-> <<<<Fields[2], Fields[2]>>>>]>>

----------------------------------------------------------------------------
(* Calculator arithmetic *)

\* the last transaction is the calculator action tag with an integer amount,
\* on an address that was absent or held the text of an integer
OnInteger(tag) ==
    /\ handler = CALCULATOR_FAMILY_NAME
    /\ HasApplied
    /\ Len(Fields) = 2
    /\ ActionTag = tag
    /\ PyInt(Fields[2]).ok
    /\ SignerAddress \in DOMAIN pre => PyInt(pre[SignerAddress]).ok

Amount == PyInt(Fields[2]).v

\* the value the signer's address held before the last call, 0 if absent
PriorValue ==
    IF SignerAddress \in DOMAIN pre THEN PyInt(pre[SignerAddress]).v ELSE 0

\* the text now stored at the signer's address is that of the integer n
Stores(n) ==
    /\ SignerAddress \in DOMAIN store
    /\ store[SignerAddress] = PyStr(n)

\* C18: on an absent address add(a) stores a, mul(a) stores 0 and div(a) with
\* a non-zero a stores 0: the prior value of an absent record is 0.
C18_AbsentIsZero ==
    \A tag \in {"add", "mul", "div"} :
        ( /\ OnInteger(tag)
          /\ SignerAddress \notin DOMAIN pre
          /\ tag = "div" => Amount # 0
          /\ Persisted )
        => Stores(IF tag = "add" THEN Amount ELSE 0)

\* C19: sub(a) writes v - a for the prior value v, with v = 0 for an absent
\* record: the write is issued, and once persisted the call has ended without
\* error and the address holds v - a.
C19_SubStoresDifference ==
    OnInteger("sub") =>
        /\ Issued("set_state")
        /\ Persisted => (result = "OK" /\ Stores(PriorValue - Amount))

\* q is the floor of v / a
IsFloor(q, v, a) ==
    IF a > 0 THEN q * a <= v /\ v < (q + 1) * a
             ELSE q * a >= v /\ v > (q + 1) * a

\* the last transaction is a persisted div with a non-zero amount on a stored
\* integer
DivOnPresent ==
    /\ OnInteger("div")
    /\ SignerAddress \in DOMAIN pre
    /\ Amount # 0
    /\ Persisted

\* C20: div with a non-zero amount a on a stored integer v ends normally and
\* stores the floor of v / a, rounded toward negative infinity.
C20_DivFloors ==
    DivOnPresent =>
        /\ result = "OK"
        /\ \E q \in (0 - MaxAbs - 1)..(MaxAbs + 1) :
              Stores(q) /\ IsFloor(q, PriorValue, Amount)

\* -7 divided by 2 stores -4
C20_Witness ==
    /\ DivOnPresent
    /\ pre[SignerAddress] = "-7"
    /\ Fields[2] = "2"
    /\ store[SignerAddress] = "-4"

----------------------------------------------------------------------------
(* Clear *)

\* the last transaction is a calculator clear with its two fields
CalculatorClear ==
    /\ handler = CALCULATOR_FAMILY_NAME
    /\ HasApplied
    /\ ActionTag = "clear"
    /\ Len(Fields) >= 2

PatientClear ==
    /\ handler = PATIENT_FAMILY_NAME
    /\ HasApplied
    /\ ActionTag = "clear"
    /\ Len(Fields) >= 4

\* C22: patient clear ends normally, writing nothing when the record is absent
\* and a zero record when it is present (an unacknowledged write aside).
C22_PatientClearGuarded ==
    PatientClear => (result = "OK" \/ ShortAcknowledgement)

----------------------------------------------------------------------------
(* Addresses *)

\* the state operations of the context
StateOps == {"get_state", "set_state", "delete_state"}

KeyValues == {"a", "b", "ab", ""}

----------------------------------------------------------------------------
(* The context operations of one call *)

\* C26: when delete_state does not acknowledge the address it was asked to
\* remove, the handler that issued it raises InternalError.
C26_DeleteFaultSurfaced ==
    \A i \in 1..Len(calls) :
        ( /\ calls[i].op = "delete_state"
          /\ calls[i].address \in DOMAIN pre
          /\ calls[i].ret = <<>> )
        => result = "InternalError"

\* C27: within one call no set_state comes before a get_state, no add_event
\* before a get_state or a set_state, and no add_event is issued when a
\* set_state was not acknowledged.
C27_ReadWriteEmit ==
    /\ \A i \in 1..Len(calls) : \A j \in (i + 1)..Len(calls) :
          /\ ~(calls[i].op = "set_state" /\ calls[j].op = "get_state")
          /\ ~(calls[i].op = "add_event" /\ calls[j].op \in {"get_state", "set_state"})
    /\ Issued("add_event") => ~ShortAcknowledgement

C27_Witness ==
    /\ Issued("get_state")
    /\ Issued("set_state")
    /\ Issued("add_event")
    /\ result = "OK"

\* the address the code derives for the last transaction
TargetAddress ==
    CASE handler = CALCULATOR_FAMILY_NAME -> get_calculator_address(txn.signer)
      [] handler = PATIENT_FAMILY_NAME -> get_patient_address(Fields[2], Fields[3])
      [] handler = SMARTMED_FAMILY_NAME /\ ActionTag = "delete" ->
            get_smartmed_address(txn.signer, Fields[2])
      [] OTHER -> get_smartmed_address(txn.signer, Fields[3])

\* the addresses the last call passed to the state operations
Touched == {calls[i].address : i \in {j \in 1..Len(calls) : calls[j].op \in StateOps}}

\* the positions of the last call's operations among ops
CallsOf(ops) == {i \in 1..Len(calls) : calls[i].op \in ops}

\* C28: a call issues at most one get_state and at most one set_state or
\* delete_state, all on the one address derived from its transaction, and
\* every other address of the store is as before the call.
C28_OneRecordPerCall ==
    /\ Cardinality(CallsOf({"get_state"})) <= 1
    /\ Cardinality(CallsOf({"set_state", "delete_state"})) <= 1
    /\ \A a \in Touched : a = TargetAddress
    /\ \A a \in (DOMAIN pre \cup DOMAIN store) \ Touched :
          /\ a \in DOMAIN pre
          /\ a \in DOMAIN store
          /\ store[a] = pre[a]

\* a persisted write, and an unacknowledged one, next to another signer's record
C28_Witness ==
    /\ handler = CALCULATOR_FAMILY_NAME
    /\ Cardinality(DOMAIN pre) = 2
    /\ Issued("get_state")
    /\ ShortAcknowledgement
    /\ result = "InternalError"

----------------------------------------------------------------------------
(* Determinism *)

\* what the context answered to each operation of a call
Answers(cs) == [i \in 1..Len(cs) |-> cs[i].ret]

\* C25: a second execution of the transaction just applied, against the same
\* prior state and with the same answers of the context, stores the same bytes
\* and emits the same events.
C25_Deterministic ==
    [][ \A ack \in BOOLEAN, now \in Timestamps :
            \A out \in {Run(store, colorFile, txn', ack, now)} :
                Answers(out.calls) = Answers(calls')
                    => (out.store = store' /\ out.events = events') ]_vars

----------------------------------------------------------------------------
(* Faults of the context *)

\* the position of the operation of the last call that the context faulted,
\* 0 when none
FaultedAt ==
    IF \E i \in 1..Len(calls) : calls[i].raised
    THEN CHOOSE i \in 1..Len(calls) : calls[i].raised
    ELSE 0

\* C30: when a context operation raises during apply, the call ends with that
\* fault and the faulted operation is the last one the handler issued; what
\* was stored and emitted before it stands, and nothing is stored or emitted
\* after it.
C30_FaultPropagates ==
    FaultedAt # 0 =>
        /\ result = "ContextFault"
        /\ FaultedAt = Len(calls)
        /\ calls[FaultedAt].op \in {"get_state", "delete_state"} =>
              (store = pre /\ events = <<>>)
        /\ calls[FaultedAt].op = "set_state" => (store = pre /\ events = <<>>)
        /\ calls[FaultedAt].op = "add_event" => events = <<>>

\* get_state raising in an add that would have gone on to write
C30_Witness ==
    /\ handler = CALCULATOR_FAMILY_NAME
    /\ txn.payload = "add,5"
    /\ FaultedAt = 1
    /\ calls[1].op = "get_state"
    /\ pre # EmptyStore

----------------------------------------------------------------------------
(* Independent calls *)

\* both calls of the race have ended
RaceOver ==
    /\ race # NoRace
    /\ \A p \in {1, 2} : race.procs[p].pc = "done"

\* the ledger after call i and then call j, each run whole, from the ledger the
\* race started on
Serial(i, j) ==
    Run(Run(race.init, colorFile, race.procs[i].txn, race.procs[i].ack,
            race.procs[i].now).store,
        colorFile, race.procs[j].txn, race.procs[j].ack, race.procs[j].now).store

\* the addresses call p passes to the state operations
AddressesOf(p) ==
    {c.address : c \in
        {d \in {Ran(race.procs[p]).calls[i] :
                    i \in 1..Len(Ran(race.procs[p]).calls)} : d.op \in StateOps}}

----------------------------------------------------------------------------
(* Calculator records over a run *)

\* text is the decimal text of an integer, as str() writes it
IsDecimal(text) ==
    /\ PyInt(text).ok
    /\ text = PyStr(PyInt(text).v)

\* C31: in a run of calculator transactions from the empty ledger every stored
\* record is the decimal text of an integer, and no call fails to load the
\* record: InternalError is raised for an unacknowledged write only.
C31_RecordsAreIntegers ==
    handler = CALCULATOR_FAMILY_NAME =>
        /\ \A a \in DOMAIN store : IsDecimal(store[a])
        /\ result = "InternalError" => ShortAcknowledgement

\* two signers' records after three calls, one of them negative
C31_Witness ==
    /\ handler = CALCULATOR_FAMILY_NAME
    /\ Len(log) = 3
    /\ Cardinality(DOMAIN store) = 2
    /\ ActionTag = "sub"
    /\ result = "OK"

\* C37: no calculator call issues delete_state, and every address that held a
\* record before a call holds one after it.
C37_NeverDeleted ==
    handler = CALCULATOR_FAMILY_NAME =>
        /\ ~Issued("delete_state")
        /\ DOMAIN pre \subseteq DOMAIN store

\* a clear of a stored integer leaves the address present
C37_Witness ==
    /\ CalculatorClear
    /\ SignerAddress \in DOMAIN pre
    /\ PyInt(pre[SignerAddress]).ok
    /\ Persisted
    /\ SignerAddress \in DOMAIN store

----------------------------------------------------------------------------
(* Smartmed records over a run *)

\* the last transaction is an interested whose query record was present
InterestedOnRecord ==
    /\ handler = SMARTMED_FAMILY_NAME
    /\ HasApplied
    /\ ActionTag = "interested"
    /\ Len(Fields) >= 9
    /\ QueryAddress \in DOMAIN pre

\* C32: from the empty ledger every stored smartmed record splits on "," into
\* exactly six fields, and the six-way unpacking of an interested transaction
\* never fails on a present record.
C32_SixFields ==
    handler = SMARTMED_FAMILY_NAME =>
        /\ \A a \in DOMAIN store : Len(Split(store[a], ",")) = 6
        /\ InterestedOnRecord => result # "ValueError"

\* an interested stored over a record that an interested had written before
C32_Witness ==
    /\ InterestedStored
    /\ Ch(pre[QueryAddress], 1) = "("
    /\ Ch(store[QueryAddress], 1) = "("
    /\ store[QueryAddress] # pre[QueryAddress]

\* the last transaction is a well-formed interested
InterestedApplied ==
    /\ handler = SMARTMED_FAMILY_NAME
    /\ HasApplied
    /\ ActionTag = "interested"
    /\ Len(Fields) >= 9

\* C33: an interested transaction whose query record is absent, or whose
\* participant is none of ds1..ds5, ends in an error without a set_state or an
\* add_event: the store is as before and no event is emitted.
C33_InterestedFailsClean ==
    (InterestedApplied /\ (QueryAddress \notin DOMAIN pre \/ SlotOf(Fields[2]) = 0)) =>
        /\ result \in {"IndexError", "UnboundLocalError"}
        /\ ~Issued("set_state")
        /\ ~Issued("add_event")
        /\ store = pre
        /\ events = <<>>

\* an unknown participant answering a query whose record is present
C33_Witness ==
    /\ InterestedOnRecord
    /\ SlotOf(Fields[2]) = 0
    /\ result = "UnboundLocalError"
    /\ Issued("get_state")

\* the last two recorded calls are the same interested transaction, both
\* stored, on a record that was present before the first of them
InterestedTwice ==
    /\ InterestedStored
    /\ Len(log) >= 2
    /\ log[Len(log) - 1].txn.payload = txn.payload
    /\ log[Len(log) - 1].result = "OK"

\* C34: the same interested transaction applied twice in succession to a present
\* record leaves the bytes that one application left: the second application
\* stores what it read.
C34_InterestedIdempotent ==
    InterestedTwice => store[QueryAddress] = pre[QueryAddress]

\* C35: find issues no get_state; the record it stores is the one it stores on
\* an empty ledger, whatever record the qid had before, so every slot is again
\* "waiting" or "n/a" and no earlier response is left in it.
C35_FindReplaces ==
    FindStored =>
        /\ ~Issued("get_state")
        /\ store[QueryAddress] = PyStrList(Reprs(FindWritten))
        /\ ListItems(store[QueryAddress])[1] = Fields[3]
        /\ \A k \in 2..6 :
              ListItems(store[QueryAddress])[k] \in {"waiting", "n/a"}

\* a find stored over a record that held a participant's response
C35_Witness ==
    /\ FindStored
    /\ QueryAddress \in DOMAIN pre
    /\ Ch(pre[QueryAddress], 1) = "("
    /\ \E k \in 1..6 :
          Split(pre[QueryAddress], ",")[k] \in {" 'inetersted'", " 'not interested'"}
    /\ Ch(store[QueryAddress], 1) = "["

\* the query id the last smartmed transaction carries
QidOf == IF ActionTag = "delete" THEN Fields[2] ELSE Fields[3]

====
